---- MODULE Spec2Model ----
(***************************************************************************)
(* A model of Riverter.py, the rivet layout calculator.                    *)
(*                                                                         *)
(* Numbers.  The program computes with Python floats (IEEE-754 binary64).  *)
(* Lengths are drawn from the grid of multiples of 1/Scale inch and        *)
(* multipliers from the grid of multiples of 1/MultScale.  On these grids  *)
(* every product, difference and comparison of rivet_layout is exact in    *)
(* binary64, and floor(effective / nominal) is the floor of the exact      *)
(* quotient, so they are computed on integers.  The one operation that     *)
(* rounds is the division effective / (n - 1) of lines 52-53: its result   *)
(* is kept as a binary64 value, the correctly rounded quotient with a      *)
(* DoublePrecision-bit significand (see TrueDiv).                          *)
(***************************************************************************)
EXTENDS Integers, Sequences, FiniteSets, TLC

VARIABLES
    \* main(): position and local variables
    pc, unit_choice, units_factor, thickness, edge_mult, spacing_mult,
    length, width, all_layouts, layout_details, cont, q, layout_num,
    \* the console: the last line read by input(), what the last step
    \* printed, and the exception that ended the program
    inp, printed, err,
    \* a direct call of one function: its name, arguments and result
    fn, args, ret

vars == <<pc, unit_choice, units_factor, thickness, edge_mult, spacing_mult,
          length, width, all_layouts, layout_details, cont, q, layout_num,
          inp, printed, err, fn, args, ret>>

mainVars == <<pc, unit_choice, units_factor, thickness, edge_mult,
              spacing_mult, length, width, all_layouts, layout_details,
              cont, q, layout_num, inp, printed, err>>

callVars == <<fn, args, ret>>

-----------------------------------------------------------------------------
(* Units and bounds *)

\* lengths are integers counting 1/Scale inch
Scale == 64
\* multipliers are integers counting 1/MultScale
MultScale == 2
\* significand width of a Python float
DoublePrecision == 53

\* bounds of the inputs of the direct calls
MaxTarget == 60
MaxThickness == 6
MaxLength == 40
MaxWidthSteps == 4
MaxSpacingMult == 6
MaxEdgeMult == 5

Max(a, b) == IF a >= b THEN a ELSE b
Abs(a) == IF a >= 0 THEN a ELSE -a

-----------------------------------------------------------------------------
(* Python floats that are not on the grid: the results of a division.      *)
(* A value is [ip, fr]: ip + 0.fr (fr a sequence of binary digits), in     *)
(* units of 1/Scale inch, holding DoublePrecision significant bits.        *)

\* the exceptions a call can end with, as values
ZeroDivisionError == [raised |-> "ZeroDivisionError"]
ValueError == [raised |-> "ValueError"]

\* a local variable not assigned yet, a call that has not returned
Pending == [pending |-> TRUE]

IsRaised(v) == DOMAIN v = {"raised"}

RECURSIVE BitLen(_)
BitLen(n) == IF n = 0 THEN 0 ELSE 1 + BitLen(n \div 2)

Zeros(n) == [i \in 1..n |-> 0]

\* the int 0 that lines 52-53 return for a side with one rivet
FloatZero == [ip |-> 0, fr |-> <<>>]

\* a grid value as a float
FromGrid(n) == [ip |-> n, fr |-> Zeros(Max(0, DoublePrecision - BitLen(n)))]

\* the first n binary digits of r / k (0 <= r < k) and the remainder left
RECURSIVE FracDigits(_, _, _, _)
FracDigits(r, k, n, acc) ==
    IF n = 0 THEN [bits |-> acc, rem |-> r]
    ELSE LET d == IF 2 * r >= k THEN 1 ELSE 0
         IN  FracDigits(2 * r - d * k, k, n - 1, Append(acc, d))

\* bits + 1 in the last place: [bits, carry]
RECURSIVE Increment(_, _)
Increment(bits, i) ==
    IF i = 0 THEN [bits |-> bits, carry |-> 1]
    ELSE IF bits[i] = 0 THEN [bits |-> [bits EXCEPT ![i] = 1], carry |-> 0]
    ELSE Increment([bits EXCEPT ![i] = 0], i - 1)

\* a value whose integer part grew by a carry keeps DoublePrecision bits
Normalize(ip, fr) ==
    [ip |-> ip,
     fr |-> SubSeq(fr, 1, Max(0, DoublePrecision - BitLen(ip)))]

\* a / b for grid values a >= b > 0, as Python's float division rounds it:
\* to the nearest value of DoublePrecision significant bits, ties to even
TrueDiv(a, b) ==
    IF b = 0 THEN ZeroDivisionError
    ELSE
    LET ip   == a \div b
        n    == DoublePrecision - BitLen(ip)
        d    == FracDigits(a % b, b, n, <<>>)
        last == IF n = 0 THEN ip % 2 ELSE d.bits[n]
        up   == 2 * d.rem > b \/ (2 * d.rem = b /\ last = 1)
        inc  == Increment(d.bits, n)
    IN  IF ~up THEN [ip |-> ip, fr |-> d.bits]
        ELSE Normalize(ip + inc.carry, inc.bits)

\* math.floor(a / b) for grid values, b # 0
FloorDiv(a, b) == IF b > 0 THEN a \div b ELSE (-a) \div (-b)

-----------------------------------------------------------------------------
(* nearest_rivet_size *)

\* [1/16, 3/32, 1/8, 5/32, 3/16, 7/32, 1/4], in units of 1/Scale inch
standard_rivets ==
    <<Scale \div 16, (3 * Scale) \div 32, Scale \div 8, (5 * Scale) \div 32,
      (3 * Scale) \div 16, (7 * Scale) \div 32, Scale \div 4>>

\* min(seq, key): the first element whose key is smallest
RECURSIVE MinByKeyLast(_, _, _, _)
MinByKeyLast(seq, target, i, best) ==
    IF i > Len(seq) THEN best
    ELSE MinByKeyLast(seq, target, i + 1,
             IF Abs(seq[i] - target) <= Abs(best - target)
             THEN seq[i] ELSE best)

RECURSIVE MinByKey(_, _, _, _)
MinByKey(seq, target, i, best) ==
    IF i > Len(seq) THEN best
    ELSE MinByKey(seq, target, i + 1,
             IF Abs(seq[i] - target) < Abs(best - target)
             THEN seq[i] ELSE best)

nearest_rivet_size(D_target) ==
    MinByKey(standard_rivets, D_target, 2, standard_rivets[1])

-----------------------------------------------------------------------------
(* rivet_layout *)

\* lines 49-50: max(1, math.floor(effective / nominal_spacing) + 1)
rivet_count_unclamped(effective, nominal_spacing) ==
    FloorDiv(effective, nominal_spacing) + 1

rivet_count_no_plus_one(effective, nominal_spacing) ==
    Max(1, FloorDiv(effective, nominal_spacing))

rivet_count(effective, nominal_spacing) ==
    Max(1, FloorDiv(effective, nominal_spacing) + 1)

\* lines 52-53: effective / (n - 1) if n > 1 else 0
actual_spacing_unguarded(effective, n) == TrueDiv(effective, n - 1)

actual_spacing(effective, n) ==
    IF n > 1 THEN TrueDiv(effective, n - 1) ELSE FloatZero

\* line 55
total_rivets(n_length, n_width) == 2 * n_length + 2 * n_width - 4

\* the dict rivet_layout returns, or the exception it ends with
rivet_layout(len, wid, thk, s_mult, e_mult) ==
    LET D_target == 3 * thk
        D == nearest_rivet_size(D_target)
        edge_distance == (e_mult * D) \div MultScale
        nominal_spacing == (s_mult * D) \div MultScale
        effective_length == len - 2 * edge_distance
        effective_width == wid - 2 * edge_distance
    IN  IF nominal_spacing = 0 THEN ZeroDivisionError
        ELSE
        LET n_length == rivet_count(effective_length, nominal_spacing)
            n_width == rivet_count(effective_width, nominal_spacing)
            actual_spacing_length == actual_spacing(effective_length, n_length)
            actual_spacing_width == actual_spacing(effective_width, n_width)
        IN  IF IsRaised(actual_spacing_length) THEN actual_spacing_length
            ELSE IF IsRaised(actual_spacing_width) THEN actual_spacing_width
            ELSE
            [thickness |-> thk,
             target_diameter |-> D_target,
             chosen_diameter |-> D,
             edge_distance |-> edge_distance,
             spacing_multiplier |-> s_mult,
             nominal_spacing |-> nominal_spacing,
             actual_spacing_length |-> actual_spacing_length,
             actual_spacing_width |-> actual_spacing_width,
             rivets_along_length |-> n_length,
             rivets_along_width |-> n_width,
             total_rivets |-> total_rivets(n_length, n_width),
             recommended_length |-> thk + Scale \div 16]

-----------------------------------------------------------------------------
(* Exact arithmetic on float values *)

IsLayout(v) == "total_rivets" \in DOMAIN v

\* k * 0.bits, digit by digit from the last place: [bits, carry]
RECURSIVE TimesBits(_, _, _, _)
TimesBits(k, bits, i, carry) ==
    IF i = 0 THEN [bits |-> bits, carry |-> carry]
    ELSE LET t == k * bits[i] + carry
         IN  TimesBits(k, [bits EXCEPT ![i] = t % 2], i - 1, t \div 2)

\* the exact product k * x of an integer and a float value
Times(k, x) ==
    LET m == TimesBits(k, x.fr, Len(x.fr), 0)
    IN  [ip |-> k * x.ip + m.carry, fr |-> m.bits]

IsGridValue(x) == \A i \in DOMAIN x.fr : x.fr[i] = 0

\* x < g, x = g, x > g for a float value x and a grid value g
Below(x, g) == x.ip < g
Equals(x, g) == x.ip = g /\ IsGridValue(x)
Above(x, g) == x.ip > g \/ (x.ip = g /\ ~IsGridValue(x))

\* x plus and minus one unit in the last place of x
OneUlpUp(x) ==
    LET inc == Increment(x.fr, Len(x.fr))
    IN  [ip |-> x.ip + inc.carry, fr |-> inc.bits]

RECURSIVE Decrement(_, _)
Decrement(bits, i) ==
    IF i = 0 THEN [bits |-> bits, borrow |-> 1]
    ELSE IF bits[i] = 1 THEN [bits |-> [bits EXCEPT ![i] = 0], borrow |-> 0]
    ELSE Decrement([bits EXCEPT ![i] = 1], i - 1)

OneUlpDown(x) ==
    LET dec == Decrement(x.fr, Len(x.fr))
    IN  [ip |-> x.ip - dec.borrow, fr |-> dec.bits]

\* x is at least the float just below the grid value g
AtLeastFloatBelow(x, g) ==
    x.ip >= g \/ (x.ip = g - 1 /\ \A i \in DOMAIN x.fr : x.fr[i] = 1)

HasPrecision(x) == x.ip >= 1 /\ BitLen(x.ip) + Len(x.fr) = DoublePrecision

Returned == ret # Pending

-----------------------------------------------------------------------------
(* Python strings *)

Char(s, i) == SubSeq(s, i, i)

UpperCase == "ABCDEFGHIJKLMNOPQRSTUVWXYZ"
LowerCase == "abcdefghijklmnopqrstuvwxyz"
DecimalDigits == "0123456789"

\* the position of the one-character string c in s, 0 when absent
IndexIn(s, c) ==
    IF \E i \in 1..Len(s) : Char(s, i) = c
    THEN CHOOSE i \in 1..Len(s) : Char(s, i) = c
    ELSE 0

LowerChar(c) ==
    IF IndexIn(UpperCase, c) > 0 THEN Char(LowerCase, IndexIn(UpperCase, c))
    ELSE c

UpperChar(c) ==
    IF IndexIn(LowerCase, c) > 0 THEN Char(UpperCase, IndexIn(LowerCase, c))
    ELSE c

\* str.lower, str.upper
RECURSIVE Lower(_)
Lower(s) ==
    IF s = "" THEN ""
    ELSE LowerChar(Char(s, 1)) \o Lower(SubSeq(s, 2, Len(s)))

RECURSIVE Upper(_)
Upper(s) ==
    IF s = "" THEN ""
    ELSE UpperChar(Char(s, 1)) \o Upper(SubSeq(s, 2, Len(s)))

\* str.strip, for the whitespace the inputs hold: the space
RECURSIVE Strip(_)
Strip(s) ==
    IF s = "" THEN ""
    ELSE IF Char(s, 1) = " " THEN Strip(SubSeq(s, 2, Len(s)))
    ELSE IF Char(s, Len(s)) = " " THEN Strip(SubSeq(s, 1, Len(s) - 1))
    ELSE s

\* str.replace(" ", "")
RECURSIVE RemoveSpaces(_)
RemoveSpaces(s) ==
    IF s = "" THEN ""
    ELSE (IF Char(s, 1) = " " THEN "" ELSE Char(s, 1))
         \o RemoveSpaces(SubSeq(s, 2, Len(s)))

\* word in s
Contains(s, word) ==
    \E i \in 1..(Len(s) - Len(word) + 1) :
        SubSeq(s, i, i + Len(word) - 1) = word

EndsWith(s, suffix) ==
    Len(s) >= Len(suffix) /\ SubSeq(s, Len(s) - Len(suffix) + 1, Len(s)) = suffix

IsDecimal(s) ==
    s # "" /\ \A i \in 1..Len(s) : IndexIn(DecimalDigits, Char(s, i)) > 0

\* str.isdigit: true of the decimal digits and of the other characters of
\* Unicode's digit type, of which the inputs hold the superscript two
IsDigit(s) ==
    s # "" /\ \A i \in 1..Len(s) :
        IndexIn(DecimalDigits, Char(s, i)) > 0 \/ Char(s, i) = "²"

RECURSIVE DecimalValue(_)
DecimalValue(s) ==
    IF s = "" THEN 0
    ELSE 10 * DecimalValue(SubSeq(s, 1, Len(s) - 1))
         + (IndexIn(DecimalDigits, Char(s, Len(s))) - 1)

\* int(s) of a stripped string: decimal digits only
ParseInt(s) == IF IsDecimal(s) THEN [value |-> DecimalValue(s)] ELSE ValueError

RECURSIVE Pow10(_)
Pow10(n) == IF n = 0 THEN 1 ELSE 10 * Pow10(n - 1)

\* a decimal literal "ddd" or "ddd.ddd" as the fraction [num, den]
DecimalLiteral(s) ==
    LET dot == IndexIn(s, ".")
        whole == IF dot = 0 THEN s ELSE SubSeq(s, 1, dot - 1)
        frac == IF dot = 0 THEN "" ELSE SubSeq(s, dot + 1, Len(s))
    IN  IF IsDecimal(whole) /\ (frac = "" \/ IsDecimal(frac))
        THEN [num |-> DecimalValue(whole) * Pow10(Len(frac)) + DecimalValue(frac),
              den |-> Pow10(Len(frac))]
        ELSE ValueError

-----------------------------------------------------------------------------
(* explain *)

\* "{:.4f}": the value in inches rounded to four decimals, ties to even,
\* as the count of ten-thousandths
Format4(x) ==
    LET m == Times(10000, x)
        whole == m.ip \div Scale
        rest == m.ip % Scale
        up == \/ 2 * rest > Scale
              \/ (2 * rest = Scale /\ (~IsGridValue(m) \/ whole % 2 = 1))
    IN  IF up THEN whole + 1 ELSE whole

AnyIn(words, ql) == \E w \in words : Contains(ql, w)

\* the branch of lines 80-104 a lower-cased question takes
RouteGeneralFirst(ql) ==
    IF AnyIn({"how", "why", "calculated", "formula"}, ql) THEN "general"
    ELSE IF AnyIn({"diameter", "rivet size", "how big", "rivet width"}, ql)
    THEN "diameter"
    ELSE IF AnyIn({"edge", "margin", "distance from edge"}, ql) THEN "edge"
    ELSE IF AnyIn({"spacing", "gap", "between rivets"}, ql) THEN "spacing"
    ELSE IF AnyIn({"how many rivets", "number of rivets", "total rivets"}, ql)
    THEN "total"
    ELSE IF AnyIn({"length rivets", "along length"}, ql) THEN "along length"
    ELSE IF AnyIn({"width rivets", "along width"}, ql) THEN "along width"
    ELSE IF AnyIn({"rivet length", "shank"}, ql) THEN "shank"
    ELSE "unknown"

Route(ql) ==
    IF AnyIn({"diameter", "rivet size", "how big", "rivet width"}, ql)
    THEN "diameter"
    ELSE IF AnyIn({"edge", "margin", "distance from edge"}, ql) THEN "edge"
    ELSE IF AnyIn({"spacing", "gap", "between rivets"}, ql) THEN "spacing"
    ELSE IF AnyIn({"how many rivets", "number of rivets", "total rivets"}, ql)
    THEN "total"
    ELSE IF AnyIn({"length rivets", "along length"}, ql) THEN "along length"
    ELSE IF AnyIn({"width rivets", "along width"}, ql) THEN "along width"
    ELSE IF AnyIn({"rivet length", "shank"}, ql) THEN "shank"
    ELSE IF AnyIn({"how", "why", "calculated", "formula"}, ql) THEN "general"
    ELSE "unknown"

\* the text of a branch: its template and the values formatted into it
Template(details, branch) ==
    CASE branch = "diameter" ->
            <<Format4(FromGrid(details.target_diameter)),
              Format4(FromGrid(details.chosen_diameter))>>
      [] branch = "edge" -> <<Format4(FromGrid(details.edge_distance))>>
      [] branch = "spacing" ->
            <<details.spacing_multiplier,
              Format4(FromGrid(details.nominal_spacing)),
              Format4(details.actual_spacing_length),
              Format4(details.actual_spacing_width)>>
      [] branch = "total" -> <<details.total_rivets>>
      [] branch = "along length" -> <<details.rivets_along_length>>
      [] branch = "along width" -> <<details.rivets_along_width>>
      [] branch = "shank" -> <<Format4(FromGrid(details.recommended_length))>>
      [] OTHER -> <<>>

explain(details, question) ==
    LET branch == Route(Lower(question))
    IN  [template |-> branch, values |-> Template(details, branch)]

-----------------------------------------------------------------------------
(* parse_input, parse_multiplier_input *)

\* eval(expr) for the expressions the inputs hold, a decimal literal or a
\* quotient of two: the fraction [num, den], or ValueError for what eval
\* raises (the bare except turns every exception into ValueError)
parse_input(expr) ==
    LET slash == IndexIn(expr, "/")
    IN  IF slash = 0 THEN DecimalLiteral(expr)
        ELSE LET a == DecimalLiteral(SubSeq(expr, 1, slash - 1))
                 b == DecimalLiteral(SubSeq(expr, slash + 1, Len(expr)))
             IN  IF IsRaised(a) \/ IsRaised(b) THEN ValueError
                 ELSE IF b.num = 0 THEN ValueError
                 ELSE [num |-> a.num * b.den, den |-> a.den * b.num]

\* float(s) for the strings the inputs hold, on the grid of multipliers
ParseFloat(s) ==
    LET v == DecimalLiteral(s)
    IN  IF IsRaised(v) THEN ValueError
        ELSE [value |-> (v.num * MultScale) \div v.den]

parse_multiplier_input(expr) ==
    LET e == RemoveSpaces(Upper(Strip(expr)))
    IN  IF EndsWith(e, "D") THEN ParseFloat(SubSeq(e, 1, Len(e) - 1))
        ELSE ValueError

\* line 113: 1.0 or 25.4
UnitsFactor(choice) ==
    IF choice = "inches" THEN [num |-> 1, den |-> 1]
    ELSE [num |-> 254, den |-> 10]

\* value / units_factor, in units of 1/Scale inch
Convert(v, factor) == (v.num * factor.den * Scale) \div (v.den * factor.num)

-----------------------------------------------------------------------------
(* main *)

\* the number of sheets a session enters
MaxLayouts == 2

UnitInputs == {"inches", " Inches ", "mm"}

\* the lines typed at the prompts of a sheet; in millimetres the numbers are
\* 25.4 times a power of two, which the division by 25.4 returns to the grid
ThicknessInputs(choice) ==
    IF choice = "inches" THEN {"1/32", "abc"} ELSE {"0.79375", ""}
EdgeInputs == {"2D", "2"}
SpacingInputs == {"4d", " 2.5 D", "0D", "four D"}
LengthInputs(choice) ==
    IF choice = "inches" THEN {"3", "0.25", "1/0"} ELSE {"101.6", "1 in"}
WidthInputs(choice) ==
    IF choice = "inches" THEN {"3/2", "x"} ELSE {"50.8", "12.7mm"}
ContInputs == {"y", " Y ", "n", ""}
QuestionInputs ==
    {"QUIT", "how many rivets total?", "rivet length", "hello"}
LayoutNumInputs == {"1", "2", "3", " 2 ", "0", "x", "", "²"}

\* a line of text on the console
Text(s) == [text |-> s]

\* line 111, up to the first prompt
Init ==
    /\ pc = "unit"
    /\ unit_choice = "" /\ units_factor = 0
    /\ thickness = 0 /\ edge_mult = 0 /\ spacing_mult = 0
    /\ length = 0 /\ width = 0
    /\ all_layouts = <<>> /\ layout_details = Pending
    /\ cont = "" /\ q = "" /\ layout_num = ""
    /\ inp = "" /\ printed = <<Text("=== Rivet Layout Calculator ===")>>
    /\ err = "none"
    /\ fn = "main" /\ args = Pending /\ ret = Pending

RaiseBreaksLoop(e) ==
    /\ pc' = "ask"
    /\ err' = e.raised

RaiseReprompts(e) ==
    /\ pc' = pc
    /\ err' = err

\* an exception nothing catches ends the program
Raise(e) ==
    /\ pc' = "error"
    /\ err' = e.raised

\* lines 112-115
ReadUnit(line) ==
    /\ pc = "unit"
    /\ inp' = line
    /\ unit_choice' = Lower(Strip(line))
    /\ units_factor' = UnitsFactor(Lower(Strip(line)))
    /\ all_layouts' = <<>>
    /\ printed' = <<>>
    /\ pc' = "thickness"
    /\ UNCHANGED <<thickness, edge_mult, spacing_mult, length, width,
                   layout_details, cont, q, layout_num, err>>
    /\ UNCHANGED callVars

\* lines 118-120
ReadThickness(line) ==
    /\ pc = "thickness"
    /\ inp' = line
    /\ LET v == parse_input(line)
       IN  IF IsRaised(v)
           THEN /\ Raise(v)
                /\ UNCHANGED <<thickness, printed>>
           ELSE /\ thickness' = Convert(v, units_factor)
                /\ printed' = <<Text("Suggested minimum edge multiplier: 2D"),
                                Text("Suggested minimum spacing multiplier: 4D")>>
                /\ pc' = "edge_mult"
                /\ UNCHANGED err
    /\ UNCHANGED <<unit_choice, units_factor, edge_mult, spacing_mult, length,
                   width, all_layouts, layout_details, cont, q, layout_num>>
    /\ UNCHANGED callVars

\* line 122
ReadEdgeMult(line) ==
    /\ pc = "edge_mult"
    /\ inp' = line
    /\ LET v == parse_multiplier_input(line)
       IN  IF IsRaised(v)
           THEN /\ Raise(v)
                /\ UNCHANGED edge_mult
           ELSE /\ edge_mult' = v.value
                /\ pc' = "spacing_mult"
                /\ UNCHANGED err
    /\ printed' = <<>>
    /\ UNCHANGED <<unit_choice, units_factor, thickness, spacing_mult, length,
                   width, all_layouts, layout_details, cont, q, layout_num>>
    /\ UNCHANGED callVars

\* line 123
ReadSpacingMult(line) ==
    /\ pc = "spacing_mult"
    /\ inp' = line
    /\ LET v == parse_multiplier_input(line)
       IN  IF IsRaised(v)
           THEN /\ Raise(v)
                /\ UNCHANGED spacing_mult
           ELSE /\ spacing_mult' = v.value
                /\ pc' = "length"
                /\ UNCHANGED err
    /\ printed' = <<>>
    /\ UNCHANGED <<unit_choice, units_factor, thickness, edge_mult, length,
                   width, all_layouts, layout_details, cont, q, layout_num>>
    /\ UNCHANGED callVars

\* line 125
ReadLength(line) ==
    /\ pc = "length"
    /\ inp' = line
    /\ LET v == parse_input(line)
       IN  IF IsRaised(v)
           THEN /\ Raise(v)
                /\ UNCHANGED length
           ELSE /\ length' = Convert(v, units_factor)
                /\ pc' = "width"
                /\ UNCHANGED err
    /\ printed' = <<>>
    /\ UNCHANGED <<unit_choice, units_factor, thickness, edge_mult,
                   spacing_mult, width, all_layouts, layout_details, cont, q,
                   layout_num>>
    /\ UNCHANGED callVars

\* line 129
StoreLayoutFirst(layouts, details) == <<details>> \o layouts

StoreLayout(layouts, details) == Append(layouts, details)

\* lines 126-131
ReadWidth(line) ==
    /\ pc = "width"
    /\ inp' = line
    /\ LET v == parse_input(line)
       IN  IF IsRaised(v)
           THEN /\ Raise(v)
                /\ UNCHANGED <<width, layout_details, all_layouts, printed>>
           ELSE
           LET w == Convert(v, units_factor)
               details == rivet_layout(length, w, thickness, spacing_mult,
                                       edge_mult)
           IN  /\ width' = w
               /\ IF IsRaised(details)
                  THEN /\ Raise(details)
                       /\ UNCHANGED <<layout_details, all_layouts, printed>>
                  ELSE /\ layout_details' = details
                       /\ all_layouts' = StoreLayout(all_layouts, details)
                       /\ printed' = <<[total_rivets |-> details.total_rivets]>>
                       /\ pc' = "cont"
                       /\ UNCHANGED err
    /\ UNCHANGED <<unit_choice, units_factor, thickness, edge_mult,
                   spacing_mult, length, cont, q, layout_num>>
    /\ UNCHANGED callVars

\* lines 136-138 and 141
Summary(layouts) ==
    [i \in 1..Len(layouts) |->
        [layout |-> i,
         total_rivets |-> layouts[i].total_rivets,
         rivets_along_length |-> layouts[i].rivets_along_length,
         rivets_along_width |-> layouts[i].rivets_along_width]]

\* lines 132-141; the session enters at most MaxLayouts sheets
ReadCont(line) ==
    /\ pc = "cont"
    /\ Lower(Strip(line)) = "y" => Len(all_layouts) < MaxLayouts
    /\ inp' = line
    /\ cont' = Lower(Strip(line))
    /\ IF Lower(Strip(line)) # "y"
       THEN /\ printed' =
                 <<Text("--- All Calculated Layouts ---")>> \o Summary(all_layouts)
                 \o <<Text("You can now ask questions about the calculations. Type 'exit' to quit.")>>
            /\ pc' = "ask"
       ELSE /\ printed' = <<>>
            /\ pc' = "thickness"
    /\ UNCHANGED <<unit_choice, units_factor, thickness, edge_mult,
                   spacing_mult, length, width, all_layouts, layout_details,
                   q, layout_num, err>>
    /\ UNCHANGED callVars

\* lines 143-147 and, with one layout, 155-156
ReadQuestion(line) ==
    /\ pc = "ask"
    /\ inp' = line
    /\ q' = line
    /\ IF Lower(line) \in {"exit", "quit"}
       THEN /\ pc' = "done"
            /\ printed' = <<>>
            /\ UNCHANGED layout_details
       ELSE IF Len(all_layouts) > 1
       THEN /\ pc' = "which"
            /\ printed' = <<>>
            /\ UNCHANGED layout_details
       ELSE /\ layout_details' = all_layouts[1]
            /\ printed' = <<explain(all_layouts[1], line)>>
            /\ pc' = "ask"
    /\ UNCHANGED <<unit_choice, units_factor, thickness, edge_mult,
                   spacing_mult, length, width, all_layouts, cont,
                   layout_num, err>>
    /\ UNCHANGED callVars

\* line 149
ValidLayoutNum(num, layouts) ==
    IsDigit(num) /\ ~IsRaised(ParseInt(num))
    /\ 1 <= ParseInt(num).value /\ ParseInt(num).value <= Len(layouts)

\* line 150
SelectLayout(layouts, num) == layouts[ParseInt(num).value]

\* lines 148-153 and 156
ReadLayoutNum(line) ==
    /\ pc = "which"
    /\ inp' = line
    /\ layout_num' = Strip(line)
    /\ LET num == Strip(line)
       IN  IF IsDigit(num) /\ IsRaised(ParseInt(num))
           THEN /\ Raise(ParseInt(num))
                /\ UNCHANGED <<layout_details, printed>>
           ELSE IF ValidLayoutNum(num, all_layouts)
           THEN /\ layout_details' = SelectLayout(all_layouts, num)
                /\ printed' = <<explain(SelectLayout(all_layouts, num), q)>>
                /\ pc' = "ask"
                /\ UNCHANGED err
           ELSE /\ layout_details' = all_layouts[1]
                /\ printed' =
                     <<Text("Invalid layout number. Using the first layout by default."),
                       explain(all_layouts[1], q)>>
                /\ pc' = "ask"
                /\ UNCHANGED err
    /\ UNCHANGED <<unit_choice, units_factor, thickness, edge_mult,
                   spacing_mult, length, width, all_layouts, cont, q>>
    /\ UNCHANGED callVars

Next ==
    \/ \E line \in UnitInputs : ReadUnit(line)
    \/ \E line \in ThicknessInputs(unit_choice) : ReadThickness(line)
    \/ \E line \in EdgeInputs : ReadEdgeMult(line)
    \/ \E line \in SpacingInputs : ReadSpacingMult(line)
    \/ \E line \in LengthInputs(unit_choice) : ReadLength(line)
    \/ \E line \in WidthInputs(unit_choice) : ReadWidth(line)
    \/ \E line \in ContInputs : ReadCont(line)
    \/ \E line \in QuestionInputs : ReadQuestion(line)
    \/ \E line \in LayoutNumInputs : ReadLayoutNum(line)

Spec == Init /\ [][Next]_vars

-----------------------------------------------------------------------------
(* Direct calls of the pure functions *)

MainIdle ==
    /\ pc = "not started"
    /\ unit_choice = "" /\ units_factor = 0
    /\ thickness = 0 /\ edge_mult = 0 /\ spacing_mult = 0
    /\ length = 0 /\ width = 0
    /\ all_layouts = <<>> /\ layout_details = Pending
    /\ cont = "" /\ q = "" /\ layout_num = ""
    /\ inp = "" /\ printed = <<>> /\ err = "none"

Targets == 1..MaxTarget

InitRound ==
    /\ MainIdle
    /\ fn = "nearest_rivet_size"
    /\ args \in [D_target : Targets]
    /\ ret = Pending

CallNearestRivetSize ==
    /\ fn = "nearest_rivet_size" /\ ret = Pending
    /\ ret' = [value |-> nearest_rivet_size(args.D_target)]
    /\ UNCHANGED <<fn, args>>
    /\ UNCHANGED mainVars

NextRound == CallNearestRivetSize

SpecRound == InitRound /\ [][NextRound]_vars

Thicknesses == 1..MaxThickness
Lengths == 1..MaxLength
Widths == {8 * i : i \in 1..MaxWidthSteps}
SpacingMults == 1..MaxSpacingMult
EdgeMults == 1..MaxEdgeMult

InitLayout ==
    /\ MainIdle
    /\ fn = "rivet_layout"
    /\ args \in [length : Lengths, width : Widths, thickness : Thicknesses,
                 spacing_mult : SpacingMults, edge_mult : EdgeMults]
    /\ ret = Pending

CallRivetLayout ==
    /\ fn = "rivet_layout" /\ ret = Pending
    /\ ret' = rivet_layout(args.length, args.width, args.thickness,
                           args.spacing_mult, args.edge_mult)
    /\ UNCHANGED <<fn, args>>
    /\ UNCHANGED mainVars

NextLayout == CallRivetLayout

SpecLayout == InitLayout /\ [][NextLayout]_vars

\* rivet_layout called directly or by a session
InitLayoutOrSession == InitLayout \/ Init

NextLayoutOrSession == NextLayout \/ Next

SpecLayoutOrSession == InitLayoutOrSession /\ [][NextLayoutOrSession]_vars

Questions ==
    {"how many rivets total?", "rivet length", "What DIAMETER?",
     "how big is it", "Rivet Size", "rivet width", "edge", "Margin?",
     "distance from edge", "spacing", "the gap", "between rivets",
     "number of rivets", "Total Rivets", "length rivets",
     "rivets along length", "width rivets", "along width", "shank",
     "how", "Why?", "calculated", "formula", "hello", "",
     "show me the knowledge", "how many rivets along the edge?",
     "rivet length and spacing", "what is the total",
     "how is the rivet length calculated"}

\* three dicts rivet_layout returns
ExplainDetails ==
    {rivet_layout(11, 8, 1, 1, 1), rivet_layout(64, 32, 4, 8, 4),
     rivet_layout(8, 100, 5, 5, 3)}

InitExplain ==
    /\ MainIdle
    /\ fn = "explain"
    /\ args \in [details : ExplainDetails, question : Questions]
    /\ ret = Pending

CallExplain ==
    /\ fn = "explain" /\ ret = Pending
    /\ ret' = explain(args.details, args.question)
    /\ UNCHANGED <<fn, args>>
    /\ UNCHANGED mainVars

NextExplain == CallExplain

SpecExplain == InitExplain /\ [][NextExplain]_vars

-----------------------------------------------------------------------------
(* Claims about nearest_rivet_size *)

Catalog == {standard_rivets[i] : i \in DOMAIN standard_rivets}

\* C1: nearest_rivet_size returns a catalog member at minimal absolute
\* distance from the target, the smaller one of two equally distant
\* members, and a catalog member unchanged.
C1_NearestIsMinimalSmallerOnTie ==
    (fn = "nearest_rivet_size" /\ Returned) =>
        LET t == args.D_target
            r == ret.value
        IN  /\ r \in Catalog
            /\ \A c \in Catalog : Abs(r - t) <= Abs(c - t)
            /\ \A c \in Catalog : Abs(c - t) = Abs(r - t) => r <= c
            /\ (t \in Catalog => r = t)

\* the tie of the claim: 13/64 lies midway between 3/16 and 7/32
C1_TieReached ==
    /\ fn = "nearest_rivet_size" /\ Returned
    /\ args.D_target * 64 = 13 * Scale
    /\ ret.value * 16 = 3 * Scale

-----------------------------------------------------------------------------
(* Claims about rivet_layout *)

LayoutReturned == fn = "rivet_layout" /\ Returned /\ IsLayout(ret)

effective_length_of(a, r) == a.length - 2 * r.edge_distance
effective_width_of(a, r) == a.width - 2 * r.edge_distance

\* the distinct positions on the boundary of a grid of n by m positions
BoundaryPositions(n, m) ==
    {p \in (1..n) \X (1..m) : p[1] \in {1, n} \/ p[2] \in {1, m}}

\* C2: total_rivets is the number of distinct boundary positions of the
\* grid of rivets_along_length by rivets_along_width positions.
C2_TotalIsBoundaryCount ==
    LayoutReturned =>
        ret.total_rivets =
            Cardinality(BoundaryPositions(ret.rivets_along_length,
                                          ret.rivets_along_width))

CountsClamped(r) ==
    /\ r.rivets_along_length >= 1
    /\ r.rivets_along_width >= 1
    /\ r.total_rivets >= 0

\* C3: every layout returned, and every layout stored by the session, has
\* at least one rivet along each side and a non-negative total.
C3_CountsClamped ==
    /\ LayoutReturned => CountsClamped(ret)
    /\ \A i \in DOMAIN all_layouts : CountsClamped(all_layouts[i])

\* twice the edge distance exceeds the length and equals the width
C3_DegenerateReached ==
    /\ LayoutReturned
    /\ 2 * ret.edge_distance > args.length
    /\ 2 * ret.edge_distance = args.width
    /\ ret.rivets_along_length = 1 /\ ret.rivets_along_width = 1

\* C4: rivet_layout raises nothing, and a side with one rivet has actual
\* spacing 0.
C4_TotalAndZeroSpacing ==
    (fn = "rivet_layout" /\ Returned) =>
        /\ ~IsRaised(ret)
        /\ ret.rivets_along_length = 1 => ret.actual_spacing_length = FloatZero
        /\ ret.rivets_along_width = 1 => ret.actual_spacing_width = FloatZero

\* one rivet along a length shorter than the two edge distances, several
\* along the width
C4_SingleRivetSideReached ==
    /\ LayoutReturned
    /\ effective_length_of(args, ret) < 0
    /\ ret.rivets_along_length = 1
    /\ ret.actual_spacing_length = FloatZero
    /\ ret.rivets_along_width > 1

SpanExact(effective, n, spacing) ==
    n > 1 => Equals(Times(n - 1, spacing), effective)

SpanRounded(effective, n, spacing) ==
    n > 1 =>
        /\ HasPrecision(spacing)
        /\ Below(Times(n - 1, OneUlpDown(spacing)), effective)
        /\ Above(Times(n - 1, OneUlpUp(spacing)), effective)
        /\ (effective % (n - 1) = 0 => Equals(Times(n - 1, spacing), effective))

SpacingBounds(nominal, n, spacing) ==
    n > 1 => ~Below(spacing, nominal) /\ Below(spacing, 2 * nominal)

SpacingBoundsRounded(nominal, n, spacing) ==
    n > 1 => AtLeastFloatBelow(spacing, nominal) /\ Below(spacing, 2 * nominal)

\* C9 as stated: with n > 1 rivets along a side, (n - 1) * actual spacing
\* is exactly the effective dimension and
\* nominal_spacing <= actual spacing < 2 * nominal_spacing.
C9_SpanExact ==
    LayoutReturned =>
        /\ SpanExact(effective_length_of(args, ret),
                     ret.rivets_along_length, ret.actual_spacing_length)
        /\ SpanExact(effective_width_of(args, ret),
                     ret.rivets_along_width, ret.actual_spacing_width)
        /\ SpacingBounds(ret.nominal_spacing, ret.rivets_along_length,
                         ret.actual_spacing_length)
        /\ SpacingBounds(ret.nominal_spacing, ret.rivets_along_width,
                         ret.actual_spacing_width)

\* C9 as amended: with n > 1 rivets along a side, actual spacing is the
\* float quotient effective / (n - 1): (n - 1) * actual spacing is within
\* (n - 1) units in the last place of the effective dimension, exactly it
\* when the quotient needs no rounding, and actual spacing is at least the
\* float just below nominal_spacing and less than 2 * nominal_spacing.
C9_SpanUpToRounding ==
    LayoutReturned =>
        /\ SpanRounded(effective_length_of(args, ret),
                       ret.rivets_along_length, ret.actual_spacing_length)
        /\ SpanRounded(effective_width_of(args, ret),
                       ret.rivets_along_width, ret.actual_spacing_width)
        /\ SpacingBoundsRounded(ret.nominal_spacing, ret.rivets_along_length,
                                ret.actual_spacing_length)
        /\ SpacingBoundsRounded(ret.nominal_spacing, ret.rivets_along_width,
                                ret.actual_spacing_width)

\* a rounded quotient along the length, an exact one along the width
C9_RoundedSpanReached ==
    /\ LayoutReturned
    /\ ret.rivets_along_length > 1
    /\ ~Equals(Times(ret.rivets_along_length - 1, ret.actual_spacing_length),
               effective_length_of(args, ret))
    /\ ret.rivets_along_width > 1
    /\ Equals(Times(ret.rivets_along_width - 1, ret.actual_spacing_width),
              effective_width_of(args, ret))

-----------------------------------------------------------------------------
(* Claims about explain *)

CategoryOrder ==
    <<"diameter", "edge", "spacing", "total", "along length", "along width",
      "shank", "general">>

Keywords(category) ==
    CASE category = "diameter" ->
            {"diameter", "rivet size", "how big", "rivet width"}
      [] category = "edge" -> {"edge", "margin", "distance from edge"}
      [] category = "spacing" -> {"spacing", "gap", "between rivets"}
      [] category = "total" ->
            {"how many rivets", "number of rivets", "total rivets"}
      [] category = "along length" -> {"length rivets", "along length"}
      [] category = "along width" -> {"width rivets", "along width"}
      [] category = "shank" -> {"rivet length", "shank"}
      [] category = "general" -> {"how", "why", "calculated", "formula"}

Matching(question) ==
    {i \in DOMAIN CategoryOrder :
        \E w \in Keywords(CategoryOrder[i]) : Contains(Lower(question), w)}

\* C8: explain answers with the template of the first category, in the
\* fixed order, that has a keyword occurring in the lower-cased question,
\* and with the "don't understand" message exactly when none has.
C8_FirstMatchingCategory ==
    (fn = "explain" /\ Returned) =>
        LET m == Matching(args.question)
        IN  /\ m = {} <=> ret.template = "unknown"
            /\ m # {} =>
                 ret.template =
                     CategoryOrder[CHOOSE i \in m : \A j \in m : i <= j]
            /\ args.question = "how many rivets total?" =>
                 ret.template = "total"
            /\ args.question = "rivet length" => ret.template = "shank"

\* a question that matches the total count and the general category
C8_TotalBeforeGeneralReached ==
    /\ fn = "explain" /\ Returned
    /\ args.question = "how many rivets total?"
    /\ Cardinality(Matching(args.question)) = 2
    /\ ret.template = "total"
    /\ ret.values = <<args.details.total_rivets>>

-----------------------------------------------------------------------------
(* Claims about the session *)

SheetPrompts == {"thickness", "edge_mult", "spacing_mult", "length", "width"}
QuestionsAndAnswers == {"ask", "which"}

ParseFails(prompt, line) ==
    \/ prompt \in {"thickness", "length", "width"} /\ IsRaised(parse_input(line))
    \/ prompt \in {"edge_mult", "spacing_mult"}
       /\ IsRaised(parse_multiplier_input(line))

\* C5: a sheet input that fails to parse ends the program with the
\* ValueError: no layout is appended, and the ended program takes no
\* further step (no new prompt, no summary, no question).
C5_ParseFailureEndsProgram ==
    [][/\ (pc \in SheetPrompts /\ ParseFails(pc, inp')) =>
            /\ pc' = "error" /\ err' = "ValueError"
            /\ all_layouts' = all_layouts
            /\ printed' = printed \/ printed' = <<>>
       /\ pc = "error" => UNCHANGED vars]_vars

\* the second sheet's spacing multiplier does not parse
C5_FailureAfterStoredLayoutReached ==
    /\ pc = "error" /\ err = "ValueError"
    /\ inp = "four D"
    /\ Len(all_layouts) = 1

InRange(num, layouts) ==
    IsDecimal(num) /\ 1 <= DecimalValue(num) /\ DecimalValue(num) <= Len(layouts)

Warning == Text("Invalid layout number. Using the first layout by default.")

AnsweredFrom(entry) ==
    /\ pc' = "ask"
    /\ err' = "none"
    /\ IF InRange(entry, all_layouts)
       THEN /\ layout_details' = all_layouts[DecimalValue(entry)]
            /\ printed' = <<explain(all_layouts[DecimalValue(entry)], q)>>
       ELSE /\ layout_details' = all_layouts[1]
            /\ printed' = <<Warning, explain(all_layouts[1], q)>>

AnsweredFromOnlyLayout ==
    (pc = "ask" /\ Len(all_layouts) = 1 /\ pc' # "done") =>
        /\ pc' = "ask"
        /\ layout_details' = all_layouts[1]
        /\ printed' = <<explain(all_layouts[1], q')>>

\* C6: with several layouts a question is answered from the layout at the
\* entered index when the entry (without surrounding blanks) is a digit
\* string between 1 and the number of layouts, and from the first layout, with a warning and without
\* failing or leaving the loop, for any other entry; with one layout no
\* index is asked and the first layout is used.
C6_AnsweredFromSelectedLayout ==
    [][/\ pc = "which" => AnsweredFrom(layout_num')
       /\ AnsweredFromOnlyLayout]_vars

\* what holds of the code: the same, for the entries that str.isdigit and
\* int agree on
C6_ExceptNonDecimalDigits ==
    [][/\ (pc = "which" /\ (IsDigit(layout_num') => IsDecimal(layout_num')))
            => AnsweredFrom(layout_num')
       /\ AnsweredFromOnlyLayout]_vars

\* C7: the list of layouts only grows, by one layout at its end for each
\* completed sheet calculation, and no step of the questions and answers
\* changes it.
C7_AppendOnly ==
    [][/\ \/ all_layouts' = all_layouts
          \/ /\ pc = "width" /\ pc' = "cont"
             /\ all_layouts' =
                    Append(all_layouts,
                           rivet_layout(length, width', thickness,
                                        spacing_mult, edge_mult))
       /\ (pc = "width" /\ pc' = "cont") =>
              Len(all_layouts') = Len(all_layouts) + 1
       /\ pc \in QuestionsAndAnswers => all_layouts' = all_layouts]_vars

\* two different layouts stored, and a question answered from the second
C7_TwoLayoutsQueriedReached ==
    /\ pc = "ask" /\ q = "rivet length" /\ layout_num = "2"
    /\ Len(all_layouts) = 2
    /\ all_layouts[1] # all_layouts[2]
    /\ layout_details = all_layouts[2]

SummaryPrinted ==
    Len(printed) >= 1 /\ printed[1] = Text("--- All Calculated Layouts ---")

\* C10: while the summary or the questions and answers run, the list holds
\* at least one layout, and they are entered only by an answer other than
\* 'y' to the prompt that follows a completed calculation.
C10_QuestionsNeedALayout ==
    /\ []((pc \in QuestionsAndAnswers \/ pc = "done" \/ SummaryPrinted) =>
              Len(all_layouts) >= 1)
    /\ [][(pc \notin QuestionsAndAnswers /\ pc' \in QuestionsAndAnswers) =>
              /\ pc = "cont" /\ cont' # "y"
              /\ Len(all_layouts) >= 1
              /\ all_layouts' = all_layouts
              /\ layout_details = all_layouts[Len(all_layouts)]
              /\ SummaryPrinted']_vars

\* the summary of one layout was printed and the first question is awaited
C10_SummaryOfOneLayoutReached ==
    /\ pc = "ask" /\ SummaryPrinted
    /\ cont = "n"
    /\ Len(all_layouts) = 1
    /\ Len(printed) = 3

====
